---- MODULE Spec2Model ----
(***************************************************************************)
(* Model of backend/ProcessLauncher.cpp (pegasus-frontend).                *)
(*                                                                         *)
(* Two parts:                                                              *)
(*   - createLaunchCommand, a pure function on strings.  A string is a     *)
(*     sequence of one-character strings, so QString::replace, the quote   *)
(*     escaping and QFileInfo::completeBaseName are computed character by  *)
(*     character.                                                          *)
(*   - launchGame / runProcess and the three slots connected to the        *)
(*     QProcess, as a state machine over the launcher's `process` pointer, *)
(*     the QProcess objects it created and the log of notifications.       *)
(*                                                                         *)
(* Q_ASSERT is modelled as a build that has assertions enabled: a failed   *)
(* assertion aborts.  Q_UNREACHABLE aborts in such a build and is          *)
(* undefined behaviour otherwise, so reaching it either aborts or falls    *)
(* through to the statement after it.                                      *)
(***************************************************************************)
EXTENDS Integers, Sequences, FiniteSets, TLC

(***************************************************************************)
(* Strings                                                                 *)
(***************************************************************************)
DQ == "\""

EmptyStr == << >>

\* the three keywords of the command template (lines 55-62)
TOK_ROM == <<"%", "R", "O", "M", "%">>

TOK_ROM_RAW == <<"%", "R", "O", "M", "_", "R", "A", "W", "%">>

TOK_BASENAME == <<"%", "B", "A", "S", "E", "N", "A", "M", "E", "%">>

\* the manually quoted form of a keyword: "\"%ROM%\"" etc. (lines 55-57)
Quoted(tok) == <<DQ>> \o tok \o <<DQ>>

\* s starts with t
StartsWith(s, t) ==
    /\ Len(s) >= Len(t)
    /\ SubSeq(s, 1, Len(t)) = t

\* QString::contains(QString)
Contains(s, t) ==
    \E i \in 1..(Len(s) - Len(t) + 1) : SubSeq(s, i, i + Len(t) - 1) = t

\* QString::replace(before, after): every occurrence of `before`, found
\* left to right without overlap, becomes `after`; inserted text is not
\* searched again.  `before` is never empty here.
RECURSIVE Replace(_, _, _)
Replace(s, before, after) ==
    IF Len(s) < Len(before) THEN s
    ELSE IF StartsWith(s, before)
         THEN after \o Replace(SubSeq(s, Len(before) + 1, Len(s)), before, after)
         ELSE <<Head(s)>> \o Replace(Tail(s), before, after)

\* characters matched by QRegularExpression("\\s") among those the model uses
IsWhitespace(c) == c \in {" ", "\t"}

\* param.contains(WHITESPACE_REGEX), line 45
ContainsWhitespace(s) == \E i \in 1..Len(s) : IsWhitespace(s[i])

\* index of the last position of s holding one of the characters cs, 0 if none
LastIndexOf(s, cs) ==
    LET hits == {i \in 1..Len(s) : s[i] \in cs}
    IN  IF hits = {} THEN 0 ELSE CHOOSE i \in hits : \A j \in hits : j <= i

\* mutant: QFileInfo::baseName() instead, which cuts at the first '.'
completeBaseName_FirstDot(path) ==
    LET sep  == LastIndexOf(path, {"/"})
        name == SubSeq(path, sep + 1, Len(path))
        dots == {i \in 1..Len(name) : name[i] = "."}
    IN  IF dots = {} THEN name
        ELSE SubSeq(name, 1, (CHOOSE i \in dots : \A j \in dots : i <= j) - 1)

\* QFileInfo(path).completeBaseName(), line 36: the file name (what follows
\* the last '/') up to, not including, its last '.'; the whole file name
\* when it has no '.'.
completeBaseName(path) ==
    LET sep  == LastIndexOf(path, {"/"})
        name == SubSeq(path, sep + 1, Len(path))
        dot  == LastIndexOf(name, {"."})
    IN  IF dot = 0 THEN name ELSE SubSeq(name, 1, dot - 1)

\* mutant: the quotes are escaped a second time
EscapeQuotes_Twice(param) ==
    Replace(Replace(param, <<DQ>>, <<DQ, DQ, DQ>>), <<DQ>>, <<DQ, DQ, DQ>>)

\* line 43: param.replace('"', "\"\"\"")
EscapeQuotes(param) == Replace(param, <<DQ>>, <<DQ, DQ, DQ>>)

\* lines 45-46: if (param.contains(WHITESPACE_REGEX)) param.prepend('"').append('"')
WrapIfWhitespace(param) ==
    IF ContainsWhitespace(param) THEN <<DQ>> \o param \o <<DQ>> ELSE param

\* the body of the loop of lines 41-49, for one parameter
PrepareParam(param) == WrapIfWhitespace(EscapeQuotes(param))

\* mutant: the manually quoted keywords keep the template's double quotes
\* around the value
ReplaceQuotedKeywords_KeepQuotes(cmd, path, basename) ==
    Replace(Replace(Replace(cmd,
        Quoted(TOK_ROM), Quoted(path)),
        Quoted(TOK_ROM_RAW), Quoted(path)),
        Quoted(TOK_BASENAME), Quoted(basename))

\* lines 54-57: the manually quoted keywords, in this order
ReplaceQuotedKeywords(cmd, path, basename) ==
    Replace(Replace(Replace(cmd,
        Quoted(TOK_ROM), path),
        Quoted(TOK_ROM_RAW), path),
        Quoted(TOK_BASENAME), basename)

\* lines 59-62: the unquoted keywords, in this order
ReplaceBareKeywords(cmd, path, basename) ==
    Replace(Replace(Replace(cmd,
        TOK_ROM, path),
        TOK_ROM_RAW, path),
        TOK_BASENAME, basename)

\* params.value(ParamType::PATH) after the loop of lines 41-49
ParamPath(rom_path) == PrepareParam(rom_path)

\* params.value(ParamType::BASENAME) after the loop of lines 41-49
ParamBasename(rom_path) == PrepareParam(completeBaseName(rom_path))

\* ProcessLauncher::createLaunchCommand(platform, game), with
\* m_launch_cmd = platform->m_launch_cmd and m_rom_path = game->m_rom_path
createLaunchCommand(m_launch_cmd, m_rom_path) ==
    ReplaceBareKeywords(
        ReplaceQuotedKeywords(m_launch_cmd, ParamPath(m_rom_path), ParamBasename(m_rom_path)),
        ParamPath(m_rom_path), ParamBasename(m_rom_path))


(***************************************************************************)
(* String literals                                                         *)
(***************************************************************************)
\* plain text of a template: `run `
TPL_RUN ==
    <<"r", "u", "n", " ">>

\* an unfinished keyword: `%ROM`
TPL_OPEN ==
    <<"%", "R", "O", "M">>

\* a directory: `/r/`
PATH_DIR ==
    <<"/", "r", "/">>

\* a file name with an extension: `a.z`
PATH_FILE ==
    <<"a", ".", "z">>

\* text with a space: ` b`
PATH_SP ==
    <<" ", "b">>

\* the template `run "%ROM%"`
TPL_EX_ROM ==
    <<"r", "u", "n", " ", "\"", "%", "R", "O", "M", "%", "\"">>

\* the template `"%BASENAME%" --fullscreen`
TPL_EX_BASENAME ==
    <<"\"", "%", "B", "A", "S", "E", "N", "A", "M", "E", "%", "\"", " ", "-", "-", "f", "u", "l", "l", "s", "c", "r", "e", "e", "n">>

\* the path `/roms/a.rom`
PATH_EX_PLAIN ==
    <<"/", "r", "o", "m", "s", "/", "a", ".", "r", "o", "m">>

\* the path `/roms/Super Game!.rom`
PATH_EX_SPACE ==
    <<"/", "r", "o", "m", "s", "/", "S", "u", "p", "e", "r", " ", "G", "a", "m", "e", "!", ".", "r", "o", "m">>

\* the command `run "a.rom"`
CMD_EX_ROM_SPEC ==
    <<"r", "u", "n", " ", "\"", "a", ".", "r", "o", "m", "\"">>

\* the command `run /roms/a.rom`
CMD_EX_ROM_CODE ==
    <<"r", "u", "n", " ", "/", "r", "o", "m", "s", "/", "a", ".", "r", "o", "m">>

\* the command `"Super Game!" --fullscreen`
CMD_EX_BASENAME ==
    <<"\"", "S", "u", "p", "e", "r", " ", "G", "a", "m", "e", "!", "\"", " ", "-", "-", "f", "u", "l", "l", "s", "c", "r", "e", "e", "n">>

\* the path `/a/b/game.zip`
PATH_EX_ZIP ==
    <<"/", "a", "/", "b", "/", "g", "a", "m", "e", ".", "z", "i", "p">>

\* the path `game.tar.gz`
PATH_EX_TARGZ ==
    <<"g", "a", "m", "e", ".", "t", "a", "r", ".", "g", "z">>

\* the path `game`
PATH_EX_NOEXT ==
    <<"g", "a", "m", "e">>

\* the path `/a/b/game`
PATH_EX_DIR_NOEXT ==
    <<"/", "a", "/", "b", "/", "g", "a", "m", "e">>

\* a path with a keyword in its file name: `/r/%ROM_RAW%.z`
PATH_EX_RAW ==
    <<"/", "r", "/", "%", "R", "O", "M", "_", "R", "A", "W", "%", ".", "z">>

\* a path with a double quote and a space: `a" b`
PATH_EX_QUOTE_SPACE ==
    <<"a", "\"", " ", "b">>

\* the value `"a""" b"`
CMD_EX_QUOTE_SPACE ==
    <<"\"", "a", "\"", "\"", "\"", " ", "b", "\"">>

\* the basename `game`
BASE_EX_GAME ==
    <<"g", "a", "m", "e">>

\* the basename `game.tar`
BASE_EX_GAME_TAR ==
    <<"g", "a", "m", "e", ".", "t", "a", "r">>


(***************************************************************************)
(* Inputs                                                                  *)
(***************************************************************************)
\* bounds of the enumerated inputs and of the runs
MaxTemplateParts == 2

MaxPathParts == 2

MaxLaunches == 2

MaxOtherErrors == 1

\* granularity of the clock of the blocking wait, in milliseconds
TickMsecs == 10000

\* QProcess::waitForFinished(int msecs = 30000): line 82 passes no argument
DefaultWaitMsecs == 30000

\* exit codes a child process returns
ExitCodes == {0, 1}

\* pieces a command template is put together from
TemplateParts ==
    { TPL_RUN,
      TOK_ROM, Quoted(TOK_ROM),
      TOK_ROM_RAW, Quoted(TOK_ROM_RAW),
      TOK_BASENAME, Quoted(TOK_BASENAME),
      <<DQ>>,
      TPL_OPEN }

\* pieces a rom path is put together from
PathParts ==
    { PATH_DIR,
      <<"a">>,
      PATH_FILE,
      PATH_SP,
      <<DQ>>,
      <<"%">>,
      TOK_ROM }

RECURSIVE Flatten(_)
Flatten(parts) ==
    IF parts = << >> THEN << >> ELSE Head(parts) \o Flatten(Tail(parts))

\* the strings made of at most n of the pieces
Concatenations(parts, n) ==
    { Flatten(ps) : ps \in UNION { [1..k -> parts] : k \in 0..n } }

\* platform->m_launch_cmd values
Templates ==
    Concatenations(TemplateParts, MaxTemplateParts) \cup {TPL_EX_ROM, TPL_EX_BASENAME}

\* game->m_rom_path values: a game names a file, so the path is not empty
Paths ==
    (Concatenations(PathParts, MaxPathParts) \ {EmptyStr})
        \cup {PATH_EX_PLAIN, PATH_EX_SPACE, PATH_EX_ZIP, PATH_EX_TARGZ, PATH_EX_NOEXT,
              PATH_EX_DIR_NOEXT, PATH_EX_RAW, PATH_EX_QUOTE_SPACE}

\* the launches the process model chooses from
LaunchPlatforms == {TPL_EX_ROM}

LaunchGames == {PATH_EX_PLAIN, PATH_EX_SPACE}

(***************************************************************************)
(* State                                                                   *)
(***************************************************************************)
VARIABLES
    platform,     \* platform->m_launch_cmd of the current launch
    game,         \* game->m_rom_path of the current launch
    launch_cmd,   \* the local launch_cmd of launchGame, NoCmd before it is built
    pc,           \* where the launcher's thread is
    process,      \* the QPointer<QProcess> member: Null or the object it points to
    procs,        \* the QProcess objects, by the launch that created them
    nlaunch,      \* number of launchGame calls made so far
    events,       \* the notifications delivered so far, oldest first
    waited,       \* milliseconds spent in the current waitForFinished
    abort         \* why and where the program aborted, NoAbort otherwise

vars == <<platform, game, launch_cmd, pc, process, procs, nlaunch, events, waited, abort>>

Null == 0

NoCmd == <<"<none>">>

NoAbort == [reason |-> "none", run |-> 0, handler |-> "none"]

Runs == 1..MaxLaunches

\* QProcess::ProcessError
ProcessErrors ==
    {"FailedToStart", "Crashed", "Timedout", "ReadError", "WriteError", "UnknownError"}

\* QProcess::ExitStatus
ExitStatuses == {"NormalExit", "CrashExit"}

\* a QProcess object: its lifetime, QProcess::state(), what the operating
\* system did with the child, and what runProcess asked of the object
NoProcess ==
    [ life |-> "unborn",          \* unborn, live (after new QProcess), deleted
      state |-> "NotRunning",     \* NotRunning, Starting, Running
      fate |-> "none",            \* none, failedToStart, running, exitedNormal, crashed
      terminateCalls |-> 0,       \* calls of terminate()
      signalled |-> FALSE,        \* terminate() reached a running child
      deleteLater |-> FALSE ]     \* a deferred delete is posted

NewProcess == [NoProcess EXCEPT !.life = "live"]

(***************************************************************************)
(* The slots                                                               *)
(***************************************************************************)
\* a signal of a QProcess: started(), errorOccurred(error),
\* finished(exitcode, exitstatus)
SigStarted == [sig |-> "started", kind |-> "-", code |-> 0]

SigError(error) == [sig |-> "failed", kind |-> error, code |-> 0]

SigFinished(exitcode, exitstatus) == [sig |-> "finished", kind |-> exitstatus, code |-> exitcode]

\* mutant: the slots open with the assertion of runProcess, Q_ASSERT(!process)
AssertProcess_Negated == process = Null

\* Q_ASSERT(process) of lines 89, 95 and 126
AssertProcess == process # Null

\* mutant: runProcess without its Q_ASSERT(!process)
AssertNoProcess_Skipped == TRUE

\* Q_ASSERT(!process) of line 69
AssertNoProcess == process = Null

\* onProcessStarted, lines 87-91: the ways it can end
onProcessStarted ==
    IF ~AssertProcess THEN {[end |-> "assert", lvl |-> "none"]}
    ELSE {[end |-> "return", lvl |-> "info"]}

\* mutant: the cases of the switch without their break statements, so that
\* every error kind falls through to the Q_UNREACHABLE() of line 115
onProcessFailedSwitch_NoBreaks(error) ==
    {[end |-> "unreachable", lvl |-> "warning"], [end |-> "return", lvl |-> "warning"]}

\* the switch of onProcessFailed, lines 96-121
onProcessFailedSwitch(error) ==
    CASE error = "FailedToStart" -> {[end |-> "return", lvl |-> "warning"]}
      [] error = "Crashed"       -> {[end |-> "return", lvl |-> "warning"]}
      [] error = "Timedout"      -> {[end |-> "return", lvl |-> "warning"]}
      [] error \in {"ReadError", "WriteError"} ->
            \* Q_UNREACHABLE(), then break
            {[end |-> "unreachable", lvl |-> "none"], [end |-> "return", lvl |-> "none"]}
      [] OTHER                   -> {[end |-> "return", lvl |-> "warning"]}

\* onProcessFailed, lines 93-122
onProcessFailed(error) ==
    IF ~AssertProcess THEN {[end |-> "assert", lvl |-> "none"]}
    ELSE onProcessFailedSwitch(error)

\* the switch of onProcessFinished, lines 127-139: CrashExit has no break
\* and falls into the default branch
onProcessFinishedSwitch(exitstatus) ==
    CASE exitstatus = "NormalExit" -> {[end |-> "return", lvl |-> "info"]}
      [] exitstatus = "CrashExit"  ->
            {[end |-> "unreachable", lvl |-> "info"], [end |-> "return", lvl |-> "info"]}
      [] OTHER ->
            {[end |-> "unreachable", lvl |-> "none"], [end |-> "return", lvl |-> "none"]}

\* onProcessFinished, lines 124-140
onProcessFinished(exitstatus) ==
    IF ~AssertProcess THEN {[end |-> "assert", lvl |-> "none"]}
    ELSE onProcessFinishedSwitch(exitstatus)

\* the connections of lines 73-76: the slot a signal runs
Slot(s) ==
    CASE s.sig = "started"  -> onProcessStarted
      [] s.sig = "failed"   -> onProcessFailed(s.kind)
      [] s.sig = "finished" -> onProcessFinished(s.kind)

SlotName(s) ==
    CASE s.sig = "started"  -> "onProcessStarted"
      [] s.sig = "failed"   -> "onProcessFailed"
      [] s.sig = "finished" -> "onProcessFinished"

\* mutant: the started signal connected to the slot of finished
Event_Miswired(run, s, lvl) ==
    [run |-> run, ev |-> IF s.sig = "started" THEN "finished" ELSE s.sig,
     kind |-> IF s.sig = "started" THEN "NormalExit" ELSE s.kind, code |-> s.code, lvl |-> lvl]

Event(run, s, lvl) ==
    [run |-> run, ev |-> s.sig, kind |-> s.kind, code |-> s.code, lvl |-> lvl]

\* The signals `sigs` of the QProcess of `run`, emitted one after the other
\* over direct connections: each runs its slot to the end before the next is
\* emitted, and nothing more is emitted once a slot aborted.  The set of
\* possible results, each the events delivered and the abort, if any.
RECURSIVE Deliver(_, _)
Deliver(run, sigs) ==
    IF sigs = << >> THEN {[evs |-> << >>, abort |-> NoAbort]}
    ELSE UNION {
            IF o.end = "return"
            THEN { [evs |-> <<Event(run, Head(sigs), o.lvl)>> \o d.evs, abort |-> d.abort] :
                     d \in Deliver(run, Tail(sigs)) }
            ELSE { [evs |-> <<Event(run, Head(sigs), o.lvl)>>,
                    abort |-> [reason |-> o.end, run |-> run, handler |-> SlotName(Head(sigs))]] }
            : o \in Slot(Head(sigs)) }

\* what QProcess emits when the child is gone (QProcessPrivate::_q_processDied)
DiedSignals(exitcode, exitstatus) ==
    IF exitstatus = "CrashExit"
    THEN <<SigError("Crashed"), SigFinished(exitcode, exitstatus)>>
    ELSE <<SigFinished(exitcode, exitstatus)>>

FateOf(exitstatus) == IF exitstatus = "CrashExit" THEN "crashed" ELSE "exitedNormal"

(***************************************************************************)
(* launchGame and runProcess                                               *)
(***************************************************************************)
\* the state after the constructor, lines 8-11: process(nullptr)
Init ==
    /\ platform = EmptyStr
    /\ game = EmptyStr
    /\ launch_cmd = NoCmd
    /\ pc = "idle"
    /\ process = Null
    /\ procs = [i \in Runs |-> NoProcess]
    /\ nlaunch = 0
    /\ events = << >>
    /\ waited = 0
    /\ abort = NoAbort

\* the program goes on (or aborts) after the signals of `d` were delivered
Delivered(d, next_pc) ==
    /\ events' = events \o d.evs
    /\ IF d.abort = NoAbort
       THEN pc' = next_pc /\ abort' = abort
       ELSE pc' = "aborted" /\ abort' = d.abort

\* launchGame up to the call of runProcess (lines 17-22), and runProcess up
\* to the connections (lines 69-76)
LaunchGame(cmd_template, rom_path) ==
    /\ pc = "idle"
    /\ nlaunch < MaxLaunches
    /\ nlaunch' = nlaunch + 1
    /\ platform' = cmd_template
    /\ game' = rom_path
    /\ launch_cmd' = createLaunchCommand(cmd_template, rom_path)
    /\ IF AssertNoProcess
       THEN /\ process' = nlaunch + 1
            /\ procs' = [procs EXCEPT ![nlaunch + 1] = NewProcess]
            /\ pc' = "start"
            /\ abort' = abort
       ELSE /\ pc' = "aborted"
            /\ abort' = [reason |-> "precondition", run |-> nlaunch + 1, handler |-> "runProcess"]
            /\ UNCHANGED <<process, procs>>
    /\ UNCHANGED <<events, waited>>

\* line 79: process->start(command, QProcess::ReadOnly); line 82 is entered
StartProcess ==
    /\ pc = "start"
    /\ procs' = [procs EXCEPT ![process].state = "Starting"]
    /\ waited' = 0
    /\ pc' = "wait"
    /\ UNCHANGED <<platform, game, launch_cmd, process, nlaunch, events, abort>>

\* inside lines 79-82: the child was created, QProcess emits started()
SpawnSucceeds ==
    /\ pc = "wait"
    /\ procs[process].state = "Starting"
    /\ procs' = [procs EXCEPT ![process].state = "Running", ![process].fate = "running"]
    /\ \E d \in Deliver(process, <<SigStarted>>) : Delivered(d, "wait")
    /\ UNCHANGED <<platform, game, launch_cmd, process, nlaunch, waited>>

\* inside lines 79-82: the child could not be created, QProcess emits
\* errorOccurred(FailedToStart) and waitForFinished returns
SpawnFails ==
    /\ pc = "wait"
    /\ procs[process].state = "Starting"
    /\ procs' = [procs EXCEPT ![process].state = "NotRunning", ![process].fate = "failedToStart"]
    /\ \E d \in Deliver(process, <<SigError("FailedToStart")>>) : Delivered(d, "afterwait")
    /\ UNCHANGED <<platform, game, launch_cmd, process, nlaunch, waited>>

\* line 82: time passes while waitForFinished blocks
TimePasses ==
    /\ pc = "wait"
    /\ procs[process].state = "Running"
    /\ waited < DefaultWaitMsecs
    /\ waited' = waited + TickMsecs
    /\ UNCHANGED <<platform, game, launch_cmd, pc, process, procs, nlaunch, events, abort>>

\* line 82: the child ends while waitForFinished blocks; QProcess emits its
\* signals and waitForFinished returns
ProcessExits(exitcode, exitstatus) ==
    /\ pc = "wait"
    /\ procs[process].state = "Running"
    /\ procs' = [procs EXCEPT ![process].state = "NotRunning", ![process].fate = FateOf(exitstatus)]
    /\ \E d \in Deliver(process, DiedSignals(exitcode, exitstatus)) : Delivered(d, "afterwait")
    /\ waited' = 0
    /\ UNCHANGED <<platform, game, launch_cmd, process, nlaunch>>

\* the errors QProcess reported so far that are neither a failed start nor a crash
OtherErrorsSoFar ==
    Cardinality({k \in 1..Len(events) :
        events[k].ev = "failed" /\ events[k].kind \notin {"FailedToStart", "Crashed"}})

\* line 82: QProcess reports another error of the running child
OtherError(error) ==
    /\ pc = "wait"
    /\ procs[process].state = "Running"
    /\ OtherErrorsSoFar < MaxOtherErrors
    /\ \E d \in Deliver(process, <<SigError(error)>>) : Delivered(d, "wait")
    /\ UNCHANGED <<platform, game, launch_cmd, process, procs, nlaunch, waited>>

\* line 82: the 30000 ms of waitForFinished() are over and the child still
\* runs; waitForFinished returns false and emits nothing
WaitTimesOut ==
    /\ pc = "wait"
    /\ procs[process].state = "Running"
    /\ waited >= DefaultWaitMsecs
    /\ pc' = "afterwait"
    /\ waited' = 0
    /\ UNCHANGED <<platform, game, launch_cmd, process, procs, nlaunch, events, abort>>

\* line 83: process->terminate() asks a running child to end and does nothing
\* otherwise
Terminate(p) ==
    [p EXCEPT !.terminateCalls = @ + 1, !.signalled = (p.state = "Running")]

\* mutant: runProcess without its process->deleteLater()
DeleteLater_Missing(p) == p

\* line 84: process->deleteLater()
DeleteLater(p) == [p EXCEPT !.deleteLater = TRUE]

\* lines 83-85: the end of runProcess
TerminateAndRelease ==
    /\ pc = "afterwait"
    /\ procs' = [procs EXCEPT ![process] = DeleteLater(Terminate(procs[process]))]
    /\ pc' = "returned"
    /\ UNCHANGED <<platform, game, launch_cmd, process, nlaunch, events, waited, abort>>

\* what line 24 emits for the launch `run`
DoneEvents(run) ==
    <<[run |-> run, ev |-> "done", kind |-> "-", code |-> 0, lvl |-> "none"]>>

\* line 24: emit processFinished(), and launchGame returns
EmitProcessFinished ==
    /\ pc = "returned"
    /\ events' = events \o DoneEvents(nlaunch)
    /\ pc' = "idle"
    /\ UNCHANGED <<platform, game, launch_cmd, process, procs, nlaunch, waited, abort>>

(***************************************************************************)
(* Between two launches: the event loop                                    *)
(***************************************************************************)
\* the QPointer is null once its object is destroyed
ClearedPointer(i) == IF process = i THEN Null ELSE process

\* The deferred delete of line 84 is processed.  ~QProcess of a QProcess
\* that still runs kills the child and waits for it, emitting the signals of
\* its end to the slots still connected.
DeferredDelete(i, exitcode, exitstatus) ==
    /\ pc = "idle"
    /\ procs[i].life = "live"
    /\ procs[i].deleteLater
    /\ IF procs[i].state = "Running"
       THEN \E d \in Deliver(i, DiedSignals(exitcode, exitstatus)) :
              /\ Delivered(d, "idle")
              /\ procs' = [procs EXCEPT
                    ![i].state = "NotRunning",
                    ![i].fate = FateOf(exitstatus),
                    ![i].life = IF d.abort = NoAbort THEN "deleted" ELSE "live"]
              /\ process' = IF d.abort = NoAbort THEN ClearedPointer(i) ELSE process
       ELSE /\ procs' = [procs EXCEPT ![i].life = "deleted"]
            /\ process' = ClearedPointer(i)
            /\ UNCHANGED <<pc, events, abort>>
    /\ UNCHANGED <<platform, game, launch_cmd, nlaunch, waited>>

\* The event loop learns that the child of a QProcess left running has
\* ended, before the object is deleted.
ProcessExitsLater(i, exitcode, exitstatus) ==
    /\ pc = "idle"
    /\ procs[i].life = "live"
    /\ procs[i].state = "Running"
    /\ procs' = [procs EXCEPT ![i].state = "NotRunning", ![i].fate = FateOf(exitstatus)]
    /\ \E d \in Deliver(i, DiedSignals(exitcode, exitstatus)) : Delivered(d, "idle")
    /\ UNCHANGED <<platform, game, launch_cmd, process, nlaunch, waited>>

Next ==
    \/ \E t \in LaunchPlatforms, p \in LaunchGames : LaunchGame(t, p)
    \/ StartProcess
    \/ SpawnSucceeds
    \/ SpawnFails
    \/ TimePasses
    \/ \E c \in ExitCodes, s \in ExitStatuses : ProcessExits(c, s)
    \/ \E e \in ProcessErrors \ {"FailedToStart", "Crashed"} : OtherError(e)
    \/ WaitTimesOut
    \/ TerminateAndRelease
    \/ EmitProcessFinished
    \/ \E i \in Runs, c \in ExitCodes, s \in ExitStatuses : DeferredDelete(i, c, s)
    \/ \E i \in Runs, c \in ExitCodes, s \in ExitStatuses : ProcessExitsLater(i, c, s)

Spec == Init /\ [][Next]_vars

(***************************************************************************)
(* createLaunchCommand on its own                                          *)
(***************************************************************************)
InitBuild ==
    /\ platform \in Templates
    /\ game \in Paths
    /\ launch_cmd = NoCmd
    /\ pc = "idle"
    /\ process = Null
    /\ procs = [i \in Runs |-> NoProcess]
    /\ nlaunch = 0
    /\ events = << >>
    /\ waited = 0
    /\ abort = NoAbort

\* line 17: launch_cmd = createLaunchCommand(platform, game)
BuildCommand ==
    /\ launch_cmd = NoCmd
    /\ launch_cmd' = createLaunchCommand(platform, game)
    /\ UNCHANGED <<platform, game, pc, process, procs, nlaunch, events, waited, abort>>

NextBuild == BuildCommand

SpecBuild == InitBuild /\ [][NextBuild]_vars

(***************************************************************************)
(* Reading the log of notifications                                        *)
(***************************************************************************)
EventsOf(run) == SelectSeq(events, LAMBDA e : e.run = run)

\* the notifications of a launch without their payload: <<name, kind>>
LabelsOf(run) ==
    [k \in 1..Len(EventsOf(run)) |-> <<EventsOf(run)[k].ev, EventsOf(run)[k].kind>>]

HasEvent(run, ev, kind) ==
    \E k \in 1..Len(events) :
        events[k].run = run /\ events[k].ev = ev /\ events[k].kind = kind

CountOf(run, ev) ==
    Cardinality({k \in 1..Len(events) : events[k].run = run /\ events[k].ev = ev})

\* launchGame of launch `run` has returned
LaunchReturned(run) == run < nlaunch \/ (run = nlaunch /\ pc = "idle")

\* the program aborted inside launch `run` or inside a slot run for it
AbortedIn(run) == pc = "aborted" /\ abort.run = run

\* the QProcess of `run` reported an error other than a failed start or a crash
HasOtherError(run) ==
    \E k \in 1..Len(events) :
        /\ events[k].run = run
        /\ events[k].ev = "failed"
        /\ events[k].kind \notin {"FailedToStart", "Crashed"}

(***************************************************************************)
(* C1: a launch whose process is spawned and exits normally shows exactly   *)
(* started, finished, done, in this order and with no failed, however long *)
(* the child runs.                                                         *)
(***************************************************************************)
C1_SuccessfulRunSequence ==
    \A i \in Runs :
        (procs[i].fate = "exitedNormal" /\ ~HasOtherError(i) /\ HasEvent(i, "done", "-"))
            => LabelsOf(i) = << <<"started", "-">>, <<"finished", "NormalExit">>, <<"done", "-">> >>

(***************************************************************************)
(* C2: a launch whose spawn fails shows exactly failed(FailedToStart) and  *)
(* then done: no started, no finished, no abort.                           *)
(***************************************************************************)
C2_SpawnFailureSequence ==
    \A i \in Runs :
        procs[i].fate = "failedToStart" =>
            /\ ~AbortedIn(i)
            /\ LabelsOf(i) =
                 IF LaunchReturned(i)
                 THEN << <<"failed", "FailedToStart">>, <<"done", "-">> >>
                 ELSE << <<"failed", "FailedToStart">> >>

C2_Witness ==
    \E i \in Runs :
        /\ procs[i].fate = "failedToStart"
        /\ LaunchReturned(i)
        /\ LabelsOf(i) = << <<"failed", "FailedToStart">>, <<"done", "-">> >>

(***************************************************************************)
(* C3: when the started process ends abnormally, failed(Crashed) and       *)
(* finished(exitCode, Crashed) are both delivered and the slot handling    *)
(* finished returns: it does not reach the unreachable branch.             *)
(***************************************************************************)
C3_CrashHandledNormally ==
    \A i \in Runs :
        procs[i].fate = "crashed" =>
            /\ HasEvent(i, "failed", "Crashed")
            /\ HasEvent(i, "finished", "CrashExit")
            /\ ~(AbortedIn(i) /\ abort.handler = "onProcessFinished")

(***************************************************************************)
(* C4: whatever the operational outcome of a launch (normal exit, spawn    *)
(* failure, crash, timeout, unknown error), the launcher does not abort    *)
(* and done is emitted once, after runProcess returned.                    *)
(***************************************************************************)
OperationalOutcome(run) ==
    /\ procs[run].life # "unborn"
    /\ ~HasEvent(run, "failed", "ReadError")
    /\ ~HasEvent(run, "failed", "WriteError")

C4_OperationalErrorsNotFatal ==
    \A i \in Runs :
        OperationalOutcome(i) =>
            /\ ~AbortedIn(i)
            /\ CountOf(i, "done") = (IF LaunchReturned(i) THEN 1 ELSE 0)

(***************************************************************************)
(* C5: runProcess does not return while the child is alive: whenever it    *)
(* has returned, the process has ended or failed to start.                 *)
(***************************************************************************)
C5_ReturnsOnlyAfterTermination ==
    pc = "returned" =>
        /\ procs[process].state = "NotRunning"
        /\ procs[process].fate \in {"failedToStart", "exitedNormal", "crashed"}

Keywords == {TOK_ROM, TOK_ROM_RAW, TOK_BASENAME}

\* launch_cmd holds the command built from platform and game
Built == launch_cmd # NoCmd

\* the template uses a manually quoted keyword
HasQuotedKeyword(template) == \E tok \in Keywords : Contains(template, Quoted(tok))

\* the template with its manually quoted keywords written bare
Unquoted(template) ==
    Replace(Replace(Replace(template,
        Quoted(TOK_ROM), TOK_ROM),
        Quoted(TOK_ROM_RAW), TOK_ROM_RAW),
        Quoted(TOK_BASENAME), TOK_BASENAME)

\* a path with no whitespace and no double quote
PlainPath(path) == ~ContainsWhitespace(path) /\ ~Contains(path, <<DQ>>)

(***************************************************************************)
(* C8: the built command holds no %ROM%, %ROM_RAW% or %BASENAME% (bare or  *)
(* quoted) unless the sanitized path or the sanitized basename holds that  *)
(* text, also when a substituted value is empty or joins with the text     *)
(* around it.                                                              *)
(***************************************************************************)
C8_NoKeywordLeft ==
    Built =>
        \A tok \in Keywords :
            Contains(launch_cmd, tok) =>
                \/ Contains(ParamPath(game), tok)
                \/ Contains(ParamBasename(game), tok)

(***************************************************************************)
(* C9: a template with a manually quoted keyword and the same template     *)
(* with the keyword bare build the same command, the value wrapped in one  *)
(* pair of double quotes when it has whitespace; `"%BASENAME%"             *)
(* --fullscreen` with `/roms/Super Game!.rom` builds `"Super Game!"        *)
(* --fullscreen`.                                                          *)
(***************************************************************************)
C9_QuotedAndBareAgree ==
    Built =>
        /\ (HasQuotedKeyword(platform) /\ ~HasQuotedKeyword(Unquoted(platform)))
              => launch_cmd = createLaunchCommand(Unquoted(platform), game)
        /\ (platform = TPL_EX_BASENAME /\ game = PATH_EX_SPACE)
              => launch_cmd = CMD_EX_BASENAME

(***************************************************************************)
(* C10: with the manually quoted "%ROM%" in the template and a path with   *)
(* no whitespace and no double quote, the value is put between the         *)
(* template's own double quotes and stays quoted; `run "%ROM%"` with       *)
(* `/roms/a.rom` builds `run "a.rom"`.                                     *)
(***************************************************************************)
C10_ValueStaysQuoted ==
    Built =>
        /\ (Contains(platform, Quoted(TOK_ROM)) /\ PlainPath(game))
              => Contains(launch_cmd, Quoted(ParamPath(game)))
        /\ (platform = TPL_EX_ROM /\ game = PATH_EX_PLAIN)
              => launch_cmd = CMD_EX_ROM_SPEC

(***************************************************************************)
(* C10, amended: with the manually quoted "%ROM%" in the template and a    *)
(* path with no whitespace and no double quote, the whole quoted keyword,  *)
(* the template's own double quotes included, is replaced by the unwrapped *)
(* path, so the value is not quoted in the built command; `run "%ROM%"`    *)
(* with `/roms/a.rom` builds `run /roms/a.rom`.                            *)
(***************************************************************************)
C10_QuotesAreReplaced ==
    Built =>
        /\ ( /\ Contains(platform, Quoted(TOK_ROM))
             /\ ~Contains(Replace(platform, Quoted(TOK_ROM), EmptyStr), <<DQ>>)
             /\ PlainPath(game) )
              => ~Contains(launch_cmd, <<DQ>>)
        /\ (platform = TPL_EX_ROM /\ game = PATH_EX_PLAIN)
              => launch_cmd = CMD_EX_ROM_CODE

C10_Witness ==
    /\ Built
    /\ platform = TPL_EX_ROM
    /\ game = PATH_EX_PLAIN
    /\ launch_cmd = CMD_EX_ROM_CODE

(***************************************************************************)
(* C11: the value build substitutes for a raw value (path or basename) is  *)
(* the raw value with every double quote tripled, once, wrapped in one     *)
(* pair of double quotes exactly when it holds a whitespace character; a   *)
(* value with no whitespace and no double quote is substituted unchanged.  *)
(***************************************************************************)
\* the sanitized value as the claim describes it, character by character
SanitizedValue(raw) ==
    LET tripled == Flatten([k \in 1..Len(raw) |->
                        IF raw[k] = DQ THEN <<DQ, DQ, DQ>> ELSE <<raw[k]>>])
    IN  IF \E k \in 1..Len(raw) : raw[k] \in {" ", "\t"}
        THEN <<DQ>> \o tripled \o <<DQ>>
        ELSE tripled

\* no pass after the one of %ROM% finds a keyword in the value
NoLaterKeyword(value) ==
    ~Contains(value, TOK_ROM_RAW) /\ ~Contains(value, TOK_BASENAME)

C11_SanitizedValue ==
    Built =>
        /\ platform = TOK_BASENAME
              => launch_cmd = SanitizedValue(completeBaseName(game))
        /\ (platform = TOK_ROM /\ NoLaterKeyword(SanitizedValue(game)))
              => launch_cmd = SanitizedValue(game)
        /\ (platform = TOK_ROM /\ PlainPath(game) /\ NoLaterKeyword(game))
              => launch_cmd = game

C11_Witness ==
    /\ Built
    /\ platform = TOK_ROM
    /\ game = PATH_EX_QUOTE_SPACE
    /\ launch_cmd = CMD_EX_QUOTE_SPACE

(***************************************************************************)
(* C12: %ROM% and %ROM_RAW% are synonyms: a template and the same template *)
(* with every %ROM% written %ROM_RAW% build the same command for every     *)
(* path, also a path whose text holds a keyword, and both keywords stand   *)
(* for the same sanitized path.                                            *)
(***************************************************************************)
\* the template with every %ROM% written %ROM_RAW%
WithRomRaw(template) == Replace(template, TOK_ROM, TOK_ROM_RAW)

C12_RomAndRomRawAgree ==
    Built =>
        /\ launch_cmd = createLaunchCommand(WithRomRaw(platform), game)
        /\ platform = TOK_ROM_RAW => launch_cmd = createLaunchCommand(TOK_ROM, game)

(***************************************************************************)
(* C13: the basename used for %BASENAME% is the path without its directory *)
(* part and without its last extension only (`/a/b/game.zip` gives `game`, *)
(* `game.tar.gz` gives `game.tar`); a file name with no extension is kept  *)
(* whole, and a path with no directory is treated like one with a          *)
(* directory.                                                              *)
(***************************************************************************)
\* The basenames the claim allows for a path: path = dir \o base \o ext,
\* where dir is empty or ends with the last '/', and ext is empty (base then
\* holds no '.') or is the last '.' of the file name and what follows it.
BaseNamesOf(path) ==
    { SubSeq(path, de[1] + 1, de[2]) : de \in
        { x \in (0..Len(path)) \X (0..Len(path)) :
            /\ x[1] <= x[2]
            /\ x[1] > 0 => path[x[1]] = "/"
            /\ \A k \in (x[1] + 1)..Len(path) : path[k] # "/"
            /\ IF x[2] = Len(path)
               THEN \A k \in (x[1] + 1)..x[2] : path[k] # "."
               ELSE /\ path[x[2] + 1] = "."
                    /\ \A k \in (x[2] + 2)..Len(path) : path[k] # "." } }

C13_BasenameExtraction ==
    (Built /\ platform = TOK_BASENAME) =>
        /\ \E base \in BaseNamesOf(game) : launch_cmd = SanitizedValue(base)
        /\ game = PATH_EX_ZIP => launch_cmd = BASE_EX_GAME
        /\ game = PATH_EX_TARGZ => launch_cmd = BASE_EX_GAME_TAR
        /\ game = PATH_EX_NOEXT => launch_cmd = BASE_EX_GAME
        /\ game = PATH_EX_DIR_NOEXT => launch_cmd = BASE_EX_GAME

C13_Witness ==
    /\ Built
    /\ platform = TOK_BASENAME
    /\ game = PATH_EX_TARGZ
    /\ launch_cmd = BASE_EX_GAME_TAR

(***************************************************************************)
(* C14: started, failed and finished of a run are delivered while          *)
(* runProcess blocks in its wait: none is delivered after that run         *)
(* returned, that is after the done of its launch.                         *)
(***************************************************************************)
Lifecycle == {"started", "failed", "finished"}

C14_NotificationsDuringWait ==
    \A k \in 1..Len(events), l \in 1..Len(events) :
        (k < l /\ events[k].ev = "done" /\ events[l].run = events[k].run)
            => events[l].ev \notin Lifecycle

(***************************************************************************)
(* C15: within a run the states go Idle, Starting, Running, Finished, with *)
(* FailedToStart entered from Starting only: finished is emitted only      *)
(* after a started of the same run, failed(FailedToStart) never after a    *)
(* started, and after finished or failed(FailedToStart) the run emits no   *)
(* further lifecycle notification.                                         *)
(***************************************************************************)
IsStarted(e) == e.ev = "started"

IsFinished(e) == e.ev = "finished"

IsFailedToStart(e) == e.ev = "failed" /\ e.kind = "FailedToStart"

C15_RunStateMachine ==
    \A l \in 1..Len(events) :
        LET e == events[l]
            before == {k \in 1..(l - 1) : events[k].run = e.run}
        IN  /\ IsFinished(e) => \E k \in before : IsStarted(events[k])
            /\ IsFailedToStart(e) => \A k \in before : ~IsStarted(events[k])
            /\ e.ev \in Lifecycle =>
                  \A k \in before : ~IsFinished(events[k]) /\ ~IsFailedToStart(events[k])
            /\ IsStarted(e) => \A k \in before : events[k].ev \notin Lifecycle

C15_Witness ==
    \E r \in Runs :
        /\ Len(EventsOf(r)) >= 3
        /\ IsStarted(EventsOf(r)[1])
        /\ EventsOf(r)[2].ev = "failed"
        /\ IsFinished(EventsOf(r)[3])
        /\ procs[r].state = "NotRunning"

(***************************************************************************)
(* C16: in every run, whatever its outcome, exactly one termination        *)
(* request is issued to the process handle, after the blocking wait        *)
(* returned and before the handle is released, and the request never acts  *)
(* on a process that is still running.                                     *)
(***************************************************************************)
C16_TerminateIsNoOp ==
    \A r \in Runs :
        /\ procs[r].terminateCalls = (IF procs[r].deleteLater THEN 1 ELSE 0)
        /\ (r = process /\ pc \in {"start", "wait", "afterwait"}) => ~procs[r].deleteLater
        /\ ~procs[r].signalled

(***************************************************************************)
(* C17: a failed notification of kind ReadError or WriteError is an        *)
(* invariant violation: the runner goes to an abort state instead of       *)
(* logging a warning and returning, while FailedToStart, Crashed, Timedout *)
(* and any other kind each log one warning and let the run go on.          *)
(***************************************************************************)
IsPipeError(e) == e.ev = "failed" /\ e.kind \in {"ReadError", "WriteError"}

AbortedInOnProcessFailed == pc = "aborted" /\ abort.handler = "onProcessFailed"

C17_PipeErrorsAbort ==
    \A l \in 1..Len(events) :
        /\ IsPipeError(events[l]) =>
              /\ events[l].lvl = "none"
              /\ AbortedInOnProcessFailed
              /\ abort.run = events[l].run
              /\ l = Len(events)
        /\ (events[l].ev = "failed" /\ ~IsPipeError(events[l])) =>
              /\ events[l].lvl = "warning"
              /\ ~(AbortedInOnProcessFailed /\ l = Len(events))

(***************************************************************************)
(* C18: every notification handler runs while the runner owns a process:   *)
(* the Q_ASSERT(process) that opens each slot never fails, so no run ever  *)
(* aborts on an assertion inside a handler.                                *)
(***************************************************************************)
HandlerNames == {"onProcessStarted", "onProcessFailed", "onProcessFinished"}

\* a slot of the QProcess of run i ran after runProcess had returned
RanFromEventLoop(i) ==
    \E l, m \in 1..Len(events) :
        /\ l < m
        /\ events[l].run = i /\ events[l].ev = "done"
        /\ events[m].run = i /\ events[m].ev \in Lifecycle

C18_HandlersSeeProcess ==
    /\ abort.reason # "assert"
    /\ abort.handler \in HandlerNames => process = abort.run
    /\ \A i \in Runs : procs[i].life = "live" => process = i

C18_Witness ==
    /\ \E i \in Runs : RanFromEventLoop(i)
    /\ \E l \in 1..Len(events) : events[l].ev = "started"
    /\ abort.reason # "assert"

(***************************************************************************)
(* C19: text inserted by a substitution is never itself substituted: the   *)
(* built command is the template with every placeholder occurrence, the    *)
(* quoted forms matched before the bare ones, replaced at once by its      *)
(* sanitized value, so that a path containing %ROM_RAW% or %BASENAME%      *)
(* appears verbatim in the command.                                        *)
(***************************************************************************)
\* the placeholder forms and the value of each, quoted forms first
Substitutions(path, basename) ==
    << <<Quoted(TOK_ROM), path>>, <<Quoted(TOK_ROM_RAW), path>>,
       <<Quoted(TOK_BASENAME), basename>>,
       <<TOK_ROM, path>>, <<TOK_ROM_RAW, path>>, <<TOK_BASENAME, basename>> >>

\* one scan of the template from left to right: a placeholder found at the
\* current position is replaced and the scan goes on behind it, in the
\* template, never in the inserted value
RECURSIVE SimultaneousReplace(_, _)
SimultaneousReplace(cmd, subs) ==
    IF cmd = << >> THEN << >>
    ELSE LET hits == {k \in 1..Len(subs) : StartsWith(cmd, subs[k][1])}
         IN IF hits = {}
            THEN <<Head(cmd)>> \o SimultaneousReplace(Tail(cmd), subs)
            ELSE LET k == CHOOSE h \in hits : \A g \in hits : h <= g
                 IN subs[k][2] \o
                    SimultaneousReplace(SubSeq(cmd, Len(subs[k][1]) + 1, Len(cmd)), subs)

C19_InsertedTextIsFinal ==
    Built => launch_cmd = SimultaneousReplace(platform,
                              Substitutions(ParamPath(game), ParamBasename(game)))

====
